---- MODULE Spec2Model ----
(***************************************************************************)
(* Model of the nv9 state-tree migration pipeline                          *)
(* (actors/migration/nv9/top.go, MigrateStateTree and migrateOneActor).    *)
(*                                                                         *)
(* One run of MigrateStateTree is modelled: the main goroutine, the job    *)
(* producer, cfg.MaxWorkers workers, the job queue monitor, the goroutine  *)
(* that closes the result channel, and the result writer.  Go channels are *)
(* sequences bounded by their capacity; a channel of capacity zero passes  *)
(* a value only in a rendezvous of a sender and a receiver.  A select with *)
(* several ready cases is a nondeterministic choice among them.            *)
(***************************************************************************)
EXTENDS Integers, Sequences, FiniteSets, TLC

\* ------------------------------------------------------------------ bounds
\* Largest cfg.MaxWorkers tried (0 is tried too).
MaxWorkersBound == 2
\* Largest cfg.JobQueueSize tried (0, unbuffered, is tried too).
MaxJobQueueSize == 1
\* Largest cfg.ResultQueueSize tried (0, unbuffered, is tried too).
MaxResultQueueSize == 1
\* Largest number of actors in the input state tree (0, the empty tree, is tried too).
MaxActors == 2

\* ------------------------------------------------------------- data model
\* jobCount, doneCount and the monitor's snapshots are uint32.  A uint32 that can
\* exceed the checker's integers is held as two 16-bit limbs: hi * Limb + lo.
Limb == 65536
U32(n) == [hi |-> (n \div Limb) % Limb, lo |-> n % Limb]
\* a - b on uint32, for a and b below 2^31: the difference wraps around below zero.
Sub32(a, b) ==
    IF a >= b THEN U32(a - b)
    ELSE [hi |-> (Limb - 1) - ((b - a - 1) \div Limb),
          lo |-> (Limb - 1) - ((b - a - 1) % Limb)]
\* atomic.AddUint32(&c, 1).  A counter counts actors of the input tree, far fewer
\* than 2^31 here, so the sum stays an integer of the checker.
AddUint32(c) == c + 1

\* Number of code CIDs the migration specification must cover.
NumCodeCIDs == 11

\* Errors.  Every error is a record so that any two can be compared.
NoErr == [kind |-> "nil", addr |-> 0]
Err(k, a) == [kind |-> k, addr |-> a]
\* ctx.Err() of a cancelled context.
Canceled == Err("context canceled", 0)

\* The StateMigration interface value of a job; NilIface is the nil interface.
NilIface == [kind |-> "nil", OutCodeCID |-> "undef"]
nilMigrator(out) == [kind |-> "nilMigrator", OutCodeCID |-> out]
Migrator(name) == [kind |-> name, OutCodeCID |-> "undef"]

\* Maps prior version code CIDs to migration functions.
migrations ==
    [c \in {"v2/account", "v2/cron", "v2/init", "v2/multisig", "v2/paych", "v2/reward",
            "v2/market", "v2/miner", "v2/power", "v2/system", "v2/verifreg"} |->
        CASE c = "v2/account"  -> nilMigrator("v3/account")
          [] c = "v2/cron"     -> nilMigrator("v3/cron")
          [] c = "v2/init"     -> Migrator("initMigrator")
          [] c = "v2/multisig" -> Migrator("multisigMigrator")
          [] c = "v2/paych"    -> Migrator("paychMigrator")
          [] c = "v2/reward"   -> nilMigrator("v3/reward")
          [] c = "v2/market"   -> Migrator("marketMigrator")
          [] c = "v2/miner"    -> Migrator("minerMigrator")
          [] c = "v2/power"    -> Migrator("powerMigrator")
          [] c = "v2/system"   -> nilMigrator("v3/system")
          [] c = "v2/verifreg" -> Migrator("verifregMigrator")]

\* Set of prior version code CIDs for actors to defer during iteration: none.
deferredCodeIDs == {}

\* migrations[code] of a Go map: the zero value, a nil interface, for a missing key.
MigrationFor(code) == IF code \in DOMAIN migrations THEN migrations[code] ELSE NilIface

\* Code CIDs the actors of the modelled input trees carry: one with a nilMigrator,
\* one with a migrator that rewrites the state (and can fail), and one that the
\* migration specification does not know.
TreeCodes == {"v2/account", "v2/miner", "v9/unknown"}

\* The actor stored at address a: head, call sequence number and balance differ
\* from address to address and from each other, so a copy into the wrong field or
\* from the wrong actor shows.
ActorAt(a, code) ==
    [Code |-> code, Head |-> 100 + a, CallSeqNum |-> (2 * a) % 5, Balance |-> (5 * a) % 7]

\* The input state trees: addresses 1..n, each with any of the codes.
InputTrees == UNION {[1..n -> TreeCodes] : n \in 0..MaxActors}

NoActor == [Code |-> "undef", Head |-> 0, CallSeqNum |-> 0, Balance |-> 0]
NoJob == [Address |-> 0, Actor |-> NoActor, StateMigration |-> NilIface]
NoResult == [Address |-> 0, Actor |-> NoActor]

\* cid.Undef, and the root CID of a flushed tree: a content identifier, so it is
\* determined by the tree's content.
Undef == [def |-> FALSE, tree |-> <<>>]
RootOf(tree) == [def |-> TRUE, tree |-> tree]

\* priorEpoch is passed through to every MigrateState call and never inspected.
PriorEpoch == "priorEpoch"

\* ------------------------------------------------------- pure functions
StateMigrationInput(addr, actorIn) ==
    [address |-> addr, balance |-> actorIn.Balance, head |-> actorIn.Head,
     priorEpoch |-> PriorEpoch]

NoMigrationResult == [NewCodeCID |-> "undef", NewHead |-> 0]

\* Faulty variant of nilMigratorMigrateState: the head is rewritten like that of a
\* migrated state instead of being preserved.
nilMigratorMigrateState_NewHead(n, in) ==
    [result |-> [NewCodeCID |-> n.OutCodeCID, NewHead |-> in.head + 1000], err |-> NoErr]

\* nilMigrator.MigrateState: preserves the head CID and provides a fixed result
\* code CID; the error is always nil.
nilMigratorMigrateState(n, in) ==
    [result |-> [NewCodeCID |-> n.OutCodeCID, NewHead |-> in.head], err |-> NoErr]

\* The code CID and the head a state-rewriting migrator (initMigrator, minerMigrator,
\* ...) answers with: the next version's code CID and a new head.
V3Code(m) == "v3/" \o m.kind
MigratedHead(h) == h + 1000

\* The outcomes of a state-rewriting migrator's MigrateState: the migrated state, or
\* an error (it reads and writes the store).
OtherMigrateState(m, in) ==
    { [result |-> [NewCodeCID |-> V3Code(m), NewHead |-> MigratedHead(in.head)],
       err |-> NoErr],
      [result |-> NoMigrationResult, err |-> Err("MigrateState", in.address)] }

\* The outcomes of input.MigrateState(ctx, store, in) for a non-nil interface value.
MigrateState(m, in) ==
    IF m.kind = "nilMigrator" THEN {nilMigratorMigrateState(m, in)}
    ELSE OtherMigrateState(m, in)

\* Faulty variant of migrateOneActor: the new record's CallSeqNum and Balance are
\* filled from each other's field.
migrateOneActor_SwappedFields(input, outcome) ==
    LET actorIn == input.Actor
        addr == input.Address
    IN  IF outcome.err # NoErr
        THEN [result |-> NoResult, err |-> Err("state migration failed", addr)]
        ELSE [result |-> [Address |-> addr,
                          Actor |-> [Code |-> outcome.result.NewCodeCID,
                                     Head |-> outcome.result.NewHead,
                                     CallSeqNum |-> actorIn.Balance,
                                     Balance |-> actorIn.CallSeqNum]],
              err |-> NoErr]

\* migrateOneActor, given the outcome of input.MigrateState: the wrapped error, or
\* the new actor record with the migrated state.
migrateOneActor(input, outcome) ==
    LET actorIn == input.Actor
        addr == input.Address
    IN  IF outcome.err # NoErr
        THEN [result |-> NoResult, err |-> Err("state migration failed", addr)]
        ELSE [result |-> [Address |-> addr,
                          Actor |-> [Code |-> outcome.result.NewCodeCID,
                                     Head |-> outcome.result.NewHead,
                                     CallSeqNum |-> actorIn.CallSeqNum,
                                     Balance |-> actorIn.Balance]],
              err |-> NoErr]

\* states3.Tree.SetActor on the output tree: the tree with addr bound to actor.
SetActor(tree, addr, actor) ==
    [a \in (DOMAIN tree) \cup {addr} |-> IF a = addr THEN actor ELSE tree[a]]

\* ------------------------------------------------------------------ state
VARIABLES
    cfg,             \* Config: MaxWorkers, JobQueueSize, ResultQueueSize, ProgressLogPeriod
    actorsIn,        \* the input state tree: address -> actor, in ForEach order
    mainPc,          \* MigrateStateTree: "start", "load", "new", "setup", "wait", "flush", "returned"
    retRoot, retErr, \* what MigrateStateTree returned
    extCancel,       \* the caller cancelled the context passed in
    grpCancel,       \* the errgroup cancelled the context it derived
    grpErr,          \* the errgroup's error: the first non-nil error a task returned
    inputCh, inputClosed,    \* the job queue and whether it is closed
    resultCh, resultClosed,  \* the result queue and whether it is closed
    workersFinished,         \* the workersFinished channel is closed
    jobCount, doneCount,     \* the atomically-modified counters
    wgCount,                 \* the counter of workerWg
    prodPc, prodIdx,         \* job producer: position, and index of the actor ForEach is at
    wPc, wInput, wResult,    \* workers: position, the job in hand, the result in hand
    coordPc,                 \* the goroutine closing the result channel
    writerPc, writerResult, resultCount, actorsOut,  \* result writer and the output tree
    monPc, jobsNow,  \* job queue monitor: position, and its snapshot of jobCount
    panicked,        \* a goroutine panicked: the process is gone
    failLog,         \* history: the non-nil errors the errgroup's tasks returned, in order
    hist             \* history: how often each operation ran

inputVars == <<cfg, actorsIn>>
mainVars == <<mainPc, retRoot, retErr>>
ctxVars == <<extCancel, grpCancel, grpErr>>
jobChVars == <<inputCh, inputClosed>>
resChVars == <<resultCh, resultClosed>>
countVars == <<jobCount, doneCount>>
prodVars == <<prodPc, prodIdx>>
workerVars == <<wPc, wInput, wResult, wgCount>>
coordVars == <<coordPc, workersFinished>>
writerVars == <<writerPc, writerResult, resultCount, actorsOut>>
monVars == <<monPc, jobsNow>>

vars == <<inputVars, mainVars, ctxVars, jobChVars, resChVars, countVars, prodVars,
          workerVars, coordVars, writerVars, monVars, panicked, failLog, hist>>

Workers == 1..cfg.MaxWorkers
Addrs == DOMAIN actorsIn

\* ctx.Done() of the context the errgroup derived from the caller's is closed.
CtxDone == extCancel \/ grpCancel

\* The process is running (no goroutine has panicked).
Alive == ~panicked

ZeroPerAddr == [a \in Addrs |-> 0]

Init ==
    /\ cfg \in [MaxWorkers : 0..MaxWorkersBound,
                JobQueueSize : 0..MaxJobQueueSize,
                ResultQueueSize : 0..MaxResultQueueSize,
                ProgressLogPeriod : {0, 1}]
    /\ actorsIn \in {[a \in DOMAIN t |-> ActorAt(a, t[a])] : t \in InputTrees}
    /\ mainPc = "start"
    /\ retRoot = Undef
    /\ retErr = NoErr
    /\ extCancel = FALSE
    /\ grpCancel = FALSE
    /\ grpErr = NoErr
    /\ inputCh = <<>>
    /\ inputClosed = FALSE
    /\ resultCh = <<>>
    /\ resultClosed = FALSE
    /\ workersFinished = FALSE
    /\ jobCount = 0
    /\ doneCount = 0
    /\ wgCount = 0
    /\ prodPc = "idle"
    /\ prodIdx = 1
    /\ wPc = [w \in Workers |-> "idle"]
    /\ wInput = [w \in Workers |-> NoJob]
    /\ wResult = [w \in Workers |-> NoResult]
    /\ coordPc = "idle"
    /\ writerPc = "idle"
    /\ writerResult = NoResult
    /\ resultCount = 0
    /\ actorsOut = <<>>
    /\ monPc = "idle"
    /\ jobsNow = 0
    /\ panicked = FALSE
    /\ failLog = <<>>
    /\ hist = [loadTree |-> 0, newTree |-> 0, makeChans |-> 0, flush |-> 0,
               jobSent |-> ZeroPerAddr, jobRecv |-> ZeroPerAddr,
               migrate |-> ZeroPerAddr, resSent |-> ZeroPerAddr,
               resRecv |-> ZeroPerAddr, setActor |-> ZeroPerAddr,
               migrateErr |-> ZeroPerAddr, inputCloses |-> <<>>, resultCloses |-> <<>>,
               sentAfterClose |-> FALSE]

\* --------------------------------------------------------------- errgroup
\* Faulty variant of GrpErrAfter: every non-nil error overwrites the one kept, as a
\* plain shared error variable would.
GrpErrAfter_LastWins(err) == IF err # NoErr THEN err ELSE grpErr

\* What a function passed to grp.Go does to the group when it returns err: the
\* first non-nil error is kept and cancels the group's context.
GrpErrAfter(err) == IF err # NoErr /\ grpErr = NoErr THEN err ELSE grpErr
GrpCancelAfter(err) == grpCancel \/ err # NoErr

GrpReturn(err) ==
    /\ grpErr' = GrpErrAfter(err)
    /\ grpCancel' = GrpCancelAfter(err)
    /\ failLog' = IF err # NoErr THEN Append(failLog, err) ELSE failLog

\* Faulty variant of GrpAllDone: the result writer is started with a plain go
\* statement, outside the errgroup, so Wait does not wait for it.
GrpAllDone_WriterOutside ==
    /\ prodPc = "done"
    /\ \A w \in Workers : wPc[w] = "done"
    /\ coordPc = "done"

\* Every function passed to grp.Go has returned.
GrpAllDone ==
    /\ prodPc = "done"
    /\ \A w \in Workers : wPc[w] = "done"
    /\ coordPc = "done"
    /\ writerPc = "done"

\* --------------------------------------------------- MigrateStateTree (main)
\* Faulty variant of Validate: cfg.MaxWorkers is not checked.
Validate_NoWorkerCheck ==
    /\ Alive
    /\ mainPc = "start"
    /\ IF Cardinality(DOMAIN migrations) + Cardinality(deferredCodeIDs) # NumCodeCIDs
       THEN /\ panicked' = TRUE
            /\ UNCHANGED mainVars
       ELSE /\ mainPc' = "load"
            /\ UNCHANGED <<retRoot, retErr, panicked>>
    /\ UNCHANGED <<inputVars, ctxVars, jobChVars, resChVars, countVars, prodVars,
                   workerVars, coordVars, writerVars, monVars, failLog, hist>>

\* if cfg.MaxWorkers <= 0 { return cid.Undef, error }; then the check that the
\* migration specification is complete.
Validate ==
    /\ Alive
    /\ mainPc = "start"
    /\ IF cfg.MaxWorkers <= 0
       THEN /\ mainPc' = "returned"
            /\ retRoot' = Undef
            /\ retErr' = Err("invalid migration config", 0)
            /\ UNCHANGED panicked
       ELSE IF Cardinality(DOMAIN migrations) + Cardinality(deferredCodeIDs) # NumCodeCIDs
       THEN /\ panicked' = TRUE
            /\ UNCHANGED mainVars
       ELSE /\ mainPc' = "load"
            /\ UNCHANGED <<retRoot, retErr, panicked>>
    /\ UNCHANGED <<inputVars, ctxVars, jobChVars, resChVars, countVars, prodVars,
                   workerVars, coordVars, writerVars, monVars, failLog, hist>>

\* actorsIn, err := states2.LoadTree(adtStore, actorsRootIn)
LoadTree ==
    /\ Alive
    /\ mainPc = "load"
    /\ hist' = [hist EXCEPT !.loadTree = @ + 1]
    /\ \E ok \in BOOLEAN :
          IF ok
          THEN /\ mainPc' = "new"
               /\ UNCHANGED <<retRoot, retErr>>
          ELSE /\ mainPc' = "returned"
               /\ retRoot' = Undef
               /\ retErr' = Err("LoadTree", 0)
    /\ UNCHANGED <<inputVars, ctxVars, jobChVars, resChVars, countVars, prodVars,
                   workerVars, coordVars, writerVars, monVars, panicked, failLog>>

\* actorsOut, err := states3.NewTree(adtStore)
NewTree ==
    /\ Alive
    /\ mainPc = "new"
    /\ hist' = [hist EXCEPT !.newTree = @ + 1]
    /\ \E ok \in BOOLEAN :
          IF ok
          THEN /\ mainPc' = "setup"
               /\ UNCHANGED <<retRoot, retErr>>
          ELSE /\ mainPc' = "returned"
               /\ retRoot' = Undef
               /\ retErr' = Err("NewTree", 0)
    /\ UNCHANGED <<inputVars, ctxVars, jobChVars, resChVars, countVars, prodVars,
                   workerVars, coordVars, writerVars, monVars, panicked, failLog>>

\* Setup synchronization and start every goroutine: the errgroup and its context,
\* the two channels, the counters, the producer, the workers (workerWg.Add(1) for
\* each), the monitor when cfg.ProgressLogPeriod > 0, the goroutine closing the
\* result channel and the result writer.  Then main is at grp.Wait().
Launch ==
    /\ Alive
    /\ mainPc = "setup"
    /\ mainPc' = "wait"
    /\ hist' = [hist EXCEPT !.makeChans = @ + 1]
    /\ inputCh' = <<>>
    /\ resultCh' = <<>>
    /\ jobCount' = 0
    /\ doneCount' = 0
    /\ prodPc' = "foreach"
    /\ wgCount' = cfg.MaxWorkers
    /\ wPc' = [w \in Workers |-> "recv"]
    /\ monPc' = IF cfg.ProgressLogPeriod > 0 THEN "select" ELSE "idle"
    /\ coordPc' = "wait"
    /\ writerPc' = "recv"
    /\ UNCHANGED <<inputVars, retRoot, retErr, ctxVars, inputClosed, resultClosed,
                   prodIdx, wInput, wResult, workersFinished, writerResult, resultCount,
                   actorsOut, jobsNow, panicked, failLog>>

\* if err := grp.Wait(); err != nil { return cid.Undef, err }.  Wait returns once
\* every function passed to grp.Go has returned, and cancels the group's context.
Wait ==
    /\ Alive
    /\ mainPc = "wait"
    /\ GrpAllDone
    /\ grpCancel' = TRUE
    /\ IF grpErr # NoErr
       THEN /\ mainPc' = "returned"
            /\ retRoot' = Undef
            /\ retErr' = grpErr
       ELSE /\ mainPc' = "flush"
            /\ UNCHANGED <<retRoot, retErr>>
    /\ UNCHANGED <<inputVars, extCancel, grpErr, jobChVars, resChVars, countVars,
                   prodVars, workerVars, coordVars, writerVars, monVars, panicked,
                   failLog, hist>>

\* return actorsOut.Flush(): the root CID of the output tree, or cid.Undef and the
\* store's error.
Flush ==
    /\ Alive
    /\ mainPc = "flush"
    /\ mainPc' = "returned"
    /\ hist' = [hist EXCEPT !.flush = @ + 1]
    /\ \E ok \in BOOLEAN :
          IF ok
          THEN /\ retRoot' = RootOf(actorsOut)
               /\ retErr' = NoErr
          ELSE /\ retRoot' = Undef
               /\ retErr' = Err("Flush", 0)
    /\ UNCHANGED <<inputVars, ctxVars, jobChVars, resChVars, countVars, prodVars,
                   workerVars, coordVars, writerVars, monVars, panicked, failLog>>

\* The caller cancels the context it passed to MigrateStateTree.
ExternalCancel ==
    /\ Alive
    /\ mainPc # "returned"
    /\ ~extCancel
    /\ extCancel' = TRUE
    /\ UNCHANGED <<inputVars, mainVars, grpCancel, grpErr, jobChVars, resChVars,
                   countVars, prodVars, workerVars, coordVars, writerVars, monVars,
                   panicked, failLog, hist>>

\* ------------------------------------------------------------ job producer
\* The migration input the ForEach visitor builds for the actor at addr.
NextInput(addr) ==
    [Address |-> addr, Actor |-> actorsIn[addr],
     StateMigration |-> MigrationFor(actorsIn[addr].Code)]

\* Faulty variant of ProducerReturn: close(inputCh) is not deferred but the last
\* statement of the function, so it runs only when the enumeration completed.
ProducerReturn_CloseAtEnd(err) ==
    /\ prodPc' = "done"
    /\ IF err # NoErr
       THEN /\ GrpReturn(err)
            /\ UNCHANGED <<inputClosed, hist, extCancel, panicked>>
       ELSE /\ inputClosed' = TRUE
            /\ hist' = [hist EXCEPT !.inputCloses = Append(@, "producer")]
            /\ GrpReturn(err)
            /\ UNCHANGED <<extCancel, panicked>>
    /\ UNCHANGED <<inputVars, mainVars, inputCh, resChVars, countVars, prodIdx,
                   workerVars, coordVars, writerVars, monVars>>

\* The producer's function returns err: the deferred close(inputCh) runs, then the
\* errgroup takes the error.
ProducerReturn(err) ==
    /\ prodPc' = "done"
    /\ IF inputClosed
       THEN /\ panicked' = TRUE
            /\ UNCHANGED <<inputClosed, hist, ctxVars, failLog>>
       ELSE /\ inputClosed' = TRUE
            /\ hist' = [hist EXCEPT !.inputCloses = Append(@, "producer")]
            /\ GrpReturn(err)
            /\ UNCHANGED <<extCancel, panicked>>
    /\ UNCHANGED <<inputVars, mainVars, inputCh, resChVars, countVars, prodIdx,
                   workerVars, coordVars, writerVars, monVars>>

\* Faulty variant of ProducerVisit: the visitor counts the job when it builds it,
\* before the select that sends it.
ProducerVisit_CountsFirst ==
    /\ Alive
    /\ prodPc = "foreach"
    /\ prodIdx \in Addrs
    /\ IF actorsIn[prodIdx].Code \in deferredCodeIDs
       THEN /\ prodIdx' = prodIdx + 1
            /\ UNCHANGED <<prodPc, jobCount>>
       ELSE /\ prodPc' = "select"
            /\ jobCount' = AddUint32(jobCount)
            /\ UNCHANGED prodIdx
    /\ UNCHANGED <<inputVars, mainVars, ctxVars, jobChVars, resChVars, doneCount,
                   workerVars, coordVars, writerVars, monVars, panicked, failLog, hist>>

\* ForEach calls the visitor for the next actor: a deferred actor is skipped, for
\* any other the visitor builds nextInput and reaches its select.
ProducerVisit ==
    /\ Alive
    /\ prodPc = "foreach"
    /\ prodIdx \in Addrs
    /\ IF actorsIn[prodIdx].Code \in deferredCodeIDs
       THEN /\ prodIdx' = prodIdx + 1
            /\ UNCHANGED prodPc
       ELSE /\ prodPc' = "select"
            /\ UNCHANGED prodIdx
    /\ UNCHANGED <<inputVars, mainVars, ctxVars, jobChVars, resChVars, countVars,
                   workerVars, coordVars, writerVars, monVars, panicked, failLog, hist>>

\* Faulty variant of ProducerSend: the job channel has no capacity limit, so the
\* send never waits.
ProducerSend_Unbounded ==
    /\ Alive
    /\ prodPc = "select"
    /\ inputCh' = Append(inputCh, NextInput(prodIdx))
    /\ prodPc' = "count"
    /\ hist' = [hist EXCEPT !.jobSent[prodIdx] = @ + 1]
    /\ UNCHANGED <<inputVars, mainVars, ctxVars, inputClosed, resChVars, countVars,
                   prodIdx, workerVars, coordVars, writerVars, monVars, panicked, failLog>>

\* case inputCh <- nextInput, the queue having room.
ProducerSend ==
    /\ Alive
    /\ prodPc = "select"
    /\ Len(inputCh) < cfg.JobQueueSize
    /\ inputCh' = Append(inputCh, NextInput(prodIdx))
    /\ prodPc' = "count"
    /\ hist' = [hist EXCEPT !.jobSent[prodIdx] = @ + 1]
    /\ UNCHANGED <<inputVars, mainVars, ctxVars, inputClosed, resChVars, countVars,
                   prodIdx, workerVars, coordVars, writerVars, monVars, panicked, failLog>>

\* case inputCh <- nextInput on an unbuffered queue, received by worker w in its
\* range over inputCh in the same step.
JobHandoff(w) ==
    /\ Alive
    /\ prodPc = "select"
    /\ cfg.JobQueueSize = 0
    /\ wPc[w] = "recv"
    /\ prodPc' = "count"
    /\ wPc' = [wPc EXCEPT ![w] = "migrate"]
    /\ wInput' = [wInput EXCEPT ![w] = NextInput(prodIdx)]
    /\ hist' = [hist EXCEPT !.jobSent[prodIdx] = @ + 1, !.jobRecv[prodIdx] = @ + 1]
    /\ UNCHANGED <<inputVars, mainVars, ctxVars, jobChVars, resChVars, countVars,
                   prodIdx, wResult, wgCount, coordVars, writerVars, monVars, panicked,
                   failLog>>

\* Faulty variant of ProducerCtxDone: the case only leaves the select, so the visitor
\* goes on to count the job it did not send and ForEach goes on to the next actor.
ProducerCtxDone_FallThrough ==
    /\ Alive
    /\ prodPc = "select"
    /\ CtxDone
    /\ prodPc' = "count"
    /\ UNCHANGED <<inputVars, mainVars, ctxVars, jobChVars, resChVars, countVars,
                   prodIdx, workerVars, coordVars, writerVars, monVars, panicked,
                   failLog, hist>>

\* case <-ctx.Done(): return ctx.Err()
ProducerCtxDone ==
    /\ Alive
    /\ prodPc = "select"
    /\ CtxDone
    /\ ProducerReturn(Canceled)

\* atomic.AddUint32(&jobCount, 1); return nil, and ForEach goes on to the next actor.
ProducerCount ==
    /\ Alive
    /\ prodPc = "count"
    /\ jobCount' = AddUint32(jobCount)
    /\ prodIdx' = prodIdx + 1
    /\ prodPc' = "foreach"
    /\ UNCHANGED <<inputVars, mainVars, ctxVars, jobChVars, resChVars, doneCount,
                   workerVars, coordVars, writerVars, monVars, panicked, failLog, hist>>

\* ForEach has visited every actor and returns nil: the producer returns nil.
ProducerDone ==
    /\ Alive
    /\ prodPc = "foreach"
    /\ prodIdx \notin Addrs
    /\ ProducerReturn(NoErr)

\* ForEach fails reading the input tree and returns its own error.
ProducerForEachError ==
    /\ Alive
    /\ prodPc = "foreach"
    /\ ProducerReturn(Err("ForEach", 0))

\* ----------------------------------------------------------------- workers
\* Faulty variant of WorkerReturn: the worker's error is dropped and the worker
\* returns nil.
WorkerReturn_Swallow(w, err) ==
    /\ wPc' = [wPc EXCEPT ![w] = "done"]
    /\ wgCount' = wgCount - 1
    /\ GrpReturn(NoErr)
    /\ UNCHANGED extCancel

\* Worker w's function returns err: the deferred workerWg.Done() runs, then the
\* errgroup takes the error.
WorkerReturn(w, err) ==
    /\ wPc' = [wPc EXCEPT ![w] = "done"]
    /\ wgCount' = wgCount - 1
    /\ GrpReturn(err)
    /\ UNCHANGED extCancel

\* Faulty variant of WorkerRecv: the worker reads the job at the head of the queue
\* without taking it out.
WorkerRecv_Peek(w) ==
    /\ Alive
    /\ wPc[w] = "recv"
    /\ inputCh # <<>>
    /\ wInput' = [wInput EXCEPT ![w] = Head(inputCh)]
    /\ wPc' = [wPc EXCEPT ![w] = "migrate"]
    /\ hist' = [hist EXCEPT !.jobRecv[Head(inputCh).Address] = @ + 1]
    /\ UNCHANGED <<inputVars, mainVars, ctxVars, jobChVars, resChVars, countVars,
                   prodVars, wResult, wgCount, coordVars, writerVars, monVars, panicked,
                   failLog>>

\* for input := range inputCh: the next job of the queue.
WorkerRecv(w) ==
    /\ Alive
    /\ wPc[w] = "recv"
    /\ inputCh # <<>>
    /\ wInput' = [wInput EXCEPT ![w] = Head(inputCh)]
    /\ inputCh' = Tail(inputCh)
    /\ wPc' = [wPc EXCEPT ![w] = "migrate"]
    /\ hist' = [hist EXCEPT !.jobRecv[Head(inputCh).Address] = @ + 1]
    /\ UNCHANGED <<inputVars, mainVars, ctxVars, inputClosed, resChVars, countVars,
                   prodVars, wResult, wgCount, coordVars, writerVars, monVars, panicked,
                   failLog>>

\* The range over inputCh ends, the queue being closed and empty: "Worker done",
\* return nil.
WorkerRangeEnd(w) ==
    /\ Alive
    /\ wPc[w] = "recv"
    /\ inputClosed
    /\ inputCh = <<>>
    /\ WorkerReturn(w, NoErr)
    /\ UNCHANGED <<inputVars, mainVars, jobChVars, resChVars, countVars, prodVars,
                   wInput, wResult, coordVars, writerVars, monVars, panicked, hist>>

\* result, err := migrateOneActor(ctx, store, input, priorEpoch); return err when
\* it is not nil, else go on to publish the result.
WorkerMigrate(w) ==
    /\ Alive
    /\ wPc[w] = "migrate"
    /\ wInput[w].StateMigration # NilIface
    /\ \E outcome \in MigrateState(wInput[w].StateMigration,
                                   StateMigrationInput(wInput[w].Address, wInput[w].Actor)) :
          LET r == migrateOneActor(wInput[w], outcome)
          IN  IF r.err # NoErr
              THEN /\ WorkerReturn(w, r.err)
                   /\ hist' = [hist EXCEPT !.migrate[wInput[w].Address] = @ + 1,
                                           !.migrateErr[wInput[w].Address] = @ + 1]
                   /\ UNCHANGED wResult
              ELSE /\ wResult' = [wResult EXCEPT ![w] = r.result]
                   /\ wPc' = [wPc EXCEPT ![w] = "select"]
                   /\ hist' = [hist EXCEPT !.migrate[wInput[w].Address] = @ + 1]
                   /\ UNCHANGED <<wgCount, ctxVars, failLog>>
    /\ UNCHANGED <<inputVars, mainVars, jobChVars, resChVars, countVars, prodVars,
                   wInput, coordVars, writerVars, monVars, panicked>>

\* migrateOneActor calls input.MigrateState on a nil StateMigration: a nil pointer
\* dereference, which no goroutine recovers from.
WorkerPanic(w) ==
    /\ Alive
    /\ wPc[w] = "migrate"
    /\ wInput[w].StateMigration = NilIface
    /\ panicked' = TRUE
    /\ UNCHANGED <<inputVars, mainVars, ctxVars, jobChVars, resChVars, countVars,
                   prodVars, workerVars, coordVars, writerVars, monVars, failLog, hist>>

\* Faulty variant of WorkerSend: result is a variable the workers share, so the
\* worker sends the result any worker at its select has made.
WorkerSend_SharedResult(w) ==
    /\ Alive
    /\ wPc[w] = "select"
    /\ ~resultClosed
    /\ Len(resultCh) < cfg.ResultQueueSize
    /\ \E v \in Workers :
          /\ wPc[v] = "select"
          /\ resultCh' = Append(resultCh, wResult[v])
          /\ hist' = [hist EXCEPT !.resSent[wResult[v].Address] = @ + 1]
    /\ wPc' = [wPc EXCEPT ![w] = "count"]
    /\ UNCHANGED <<inputVars, mainVars, ctxVars, jobChVars, resultClosed, countVars,
                   prodVars, wInput, wResult, wgCount, coordVars, writerVars, monVars,
                   panicked, failLog>>

\* case resultCh <- result, the queue having room.  A send on a closed channel
\* panics.
WorkerSend(w) ==
    /\ Alive
    /\ wPc[w] = "select"
    /\ resultClosed \/ Len(resultCh) < cfg.ResultQueueSize
    /\ IF resultClosed
       THEN /\ panicked' = TRUE
            /\ hist' = [hist EXCEPT !.sentAfterClose = TRUE]
            /\ UNCHANGED <<resultCh, wPc>>
       ELSE /\ resultCh' = Append(resultCh, wResult[w])
            /\ wPc' = [wPc EXCEPT ![w] = "count"]
            /\ hist' = [hist EXCEPT !.resSent[wResult[w].Address] = @ + 1]
            /\ UNCHANGED panicked
    /\ UNCHANGED <<inputVars, mainVars, ctxVars, jobChVars, resultClosed, countVars,
                   prodVars, wInput, wResult, wgCount, coordVars, writerVars, monVars,
                   failLog>>

\* case resultCh <- result on an unbuffered queue, received by the result writer in
\* its range over resultCh in the same step.
ResultHandoff(w) ==
    /\ Alive
    /\ wPc[w] = "select"
    /\ cfg.ResultQueueSize = 0
    /\ ~resultClosed
    /\ writerPc = "recv"
    /\ wPc' = [wPc EXCEPT ![w] = "count"]
    /\ writerPc' = "set"
    /\ writerResult' = wResult[w]
    /\ hist' = [hist EXCEPT !.resSent[wResult[w].Address] = @ + 1,
                            !.resRecv[wResult[w].Address] = @ + 1]
    /\ UNCHANGED <<inputVars, mainVars, ctxVars, jobChVars, resChVars, countVars,
                   prodVars, wInput, wResult, wgCount, coordVars, resultCount, actorsOut,
                   monVars, panicked, failLog>>

\* Faulty variant of WorkerCtxDone: the job is counted as done although its result
\* was not sent.
WorkerCtxDone_Counts(w) ==
    /\ Alive
    /\ wPc[w] = "select"
    /\ CtxDone
    /\ WorkerReturn(w, Canceled)
    /\ doneCount' = AddUint32(doneCount)
    /\ UNCHANGED <<inputVars, mainVars, jobChVars, resChVars, jobCount, prodVars,
                   wInput, wResult, coordVars, writerVars, monVars, panicked, hist>>

\* case <-ctx.Done(): return ctx.Err()
WorkerCtxDone(w) ==
    /\ Alive
    /\ wPc[w] = "select"
    /\ CtxDone
    /\ WorkerReturn(w, Canceled)
    /\ UNCHANGED <<inputVars, mainVars, jobChVars, resChVars, countVars, prodVars,
                   wInput, wResult, coordVars, writerVars, monVars, panicked, hist>>

\* atomic.AddUint32(&doneCount, 1), and back to the range over inputCh.
WorkerCount(w) ==
    /\ Alive
    /\ wPc[w] = "count"
    /\ doneCount' = AddUint32(doneCount)
    /\ wPc' = [wPc EXCEPT ![w] = "recv"]
    /\ UNCHANGED <<inputVars, mainVars, ctxVars, jobChVars, resChVars, jobCount,
                   prodVars, wInput, wResult, wgCount, coordVars, writerVars, monVars,
                   panicked, failLog, hist>>

\* --------------------------------- closing the result channel (coordinator)
\* workerWg.Wait() returns, the counter being zero; close(resultCh).  Closing a
\* closed channel panics.
CloseResultCh ==
    /\ Alive
    /\ coordPc = "wait"
    /\ wgCount = 0
    /\ IF resultClosed
       THEN /\ panicked' = TRUE
            /\ UNCHANGED <<resultClosed, coordPc, hist>>
       ELSE /\ resultClosed' = TRUE
            /\ coordPc' = "closed"
            /\ hist' = [hist EXCEPT !.resultCloses = Append(@, "coordinator")]
            /\ UNCHANGED panicked
    /\ UNCHANGED <<inputVars, mainVars, ctxVars, jobChVars, resultCh, countVars,
                   prodVars, workerVars, workersFinished, writerVars, monVars, failLog>>

\* close(workersFinished); "All workers done"; return nil.
CloseWorkersFinished ==
    /\ Alive
    /\ coordPc = "closed"
    /\ workersFinished' = TRUE
    /\ coordPc' = "done"
    /\ GrpReturn(NoErr)
    /\ UNCHANGED <<inputVars, mainVars, extCancel, jobChVars, resChVars, countVars,
                   prodVars, workerVars, writerVars, monVars, panicked, hist>>

\* ------------------------------------------------------------ result writer
\* for result := range resultCh: the next result of the queue.
WriterRecv ==
    /\ Alive
    /\ writerPc = "recv"
    /\ resultCh # <<>>
    /\ writerResult' = Head(resultCh)
    /\ resultCh' = Tail(resultCh)
    /\ writerPc' = "set"
    /\ hist' = [hist EXCEPT !.resRecv[Head(resultCh).Address] = @ + 1]
    /\ UNCHANGED <<inputVars, mainVars, ctxVars, jobChVars, resultClosed, countVars,
                   prodVars, workerVars, coordVars, resultCount, actorsOut, monVars,
                   panicked, failLog>>

\* actorsOut.SetActor(result.Address, &result.Actor): return its error, or
\* resultCount++ and back to the range over resultCh.
WriterSetActor ==
    /\ Alive
    /\ writerPc = "set"
    /\ \E ok \in BOOLEAN :
          IF ok
          THEN /\ actorsOut' = SetActor(actorsOut, writerResult.Address, writerResult.Actor)
               /\ resultCount' = resultCount + 1
               /\ writerPc' = "recv"
               /\ hist' = [hist EXCEPT !.setActor[writerResult.Address] = @ + 1]
               /\ UNCHANGED <<ctxVars, failLog>>
          ELSE /\ writerPc' = "done"
               /\ GrpReturn(Err("SetActor", writerResult.Address))
               /\ UNCHANGED <<actorsOut, resultCount, extCancel, hist>>
    /\ UNCHANGED <<inputVars, mainVars, jobChVars, resChVars, countVars, prodVars,
                   workerVars, coordVars, writerResult, monVars, panicked>>

\* Faulty variant of WriterRangeEnd: the writer stops as soon as it finds the queue
\* empty, closed or not.
WriterRangeEnd_NotClosed ==
    /\ Alive
    /\ writerPc = "recv"
    /\ resultCh = <<>>
    /\ writerPc' = "done"
    /\ GrpReturn(NoErr)
    /\ UNCHANGED <<inputVars, mainVars, extCancel, jobChVars, resChVars, countVars,
                   prodVars, workerVars, coordVars, writerResult, resultCount, actorsOut,
                   monVars, panicked, hist>>

\* The range over resultCh ends, the queue being closed and empty: "Result writer
\* wrote %d results", return nil.
WriterRangeEnd ==
    /\ Alive
    /\ writerPc = "recv"
    /\ resultClosed
    /\ resultCh = <<>>
    /\ writerPc' = "done"
    /\ GrpReturn(NoErr)
    /\ UNCHANGED <<inputVars, mainVars, extCancel, jobChVars, resChVars, countVars,
                   prodVars, workerVars, coordVars, writerResult, resultCount, actorsOut,
                   monVars, panicked, hist>>

\* -------------------------------------------------------- job queue monitor
\* case <-time.After(cfg.ProgressLogPeriod): jobsNow := jobCount
MonitorTick ==
    /\ Alive
    /\ monPc = "select"
    /\ jobsNow' = jobCount
    /\ monPc' = "snapshot"
    /\ UNCHANGED <<inputVars, mainVars, ctxVars, jobChVars, resChVars, countVars,
                   prodVars, workerVars, coordVars, writerVars, panicked, failLog, hist>>

\* pendingNow := jobsNow - doneNow, on uint32, with doneNow the doneCount read now.
PendingNow == Sub32(jobsNow, doneCount)

\* doneNow := doneCount; pendingNow := jobsNow - doneNow; the log line is emitted.
MonitorLog ==
    /\ Alive
    /\ monPc = "snapshot"
    /\ PendingNow \in [hi : 0..(Limb - 1), lo : 0..(Limb - 1)]
    /\ jobsNow' = 0
    /\ monPc' = "select"
    /\ UNCHANGED <<inputVars, mainVars, ctxVars, jobChVars, resChVars, countVars,
                   prodVars, workerVars, coordVars, writerVars, panicked, failLog, hist>>

\* case <-workersFinished: return, or case <-ctx.Done(): return
MonitorStop ==
    /\ Alive
    /\ monPc = "select"
    /\ workersFinished \/ CtxDone
    /\ monPc' = "done"
    /\ UNCHANGED <<inputVars, mainVars, ctxVars, jobChVars, resChVars, countVars,
                   prodVars, workerVars, coordVars, writerVars, jobsNow, panicked,
                   failLog, hist>>

\* ------------------------------------------------------------ specification
Main == Validate \/ LoadTree \/ NewTree \/ Launch \/ Wait \/ Flush

Producer ==
    \/ ProducerVisit
    \/ ProducerSend
    \/ ProducerCtxDone
    \/ ProducerCount
    \/ ProducerDone
    \/ ProducerForEachError

Worker(w) ==
    \/ JobHandoff(w)
    \/ WorkerRecv(w)
    \/ WorkerRangeEnd(w)
    \/ WorkerMigrate(w)
    \/ WorkerPanic(w)
    \/ WorkerSend(w)
    \/ ResultHandoff(w)
    \/ WorkerCtxDone(w)
    \/ WorkerCount(w)

Coordinator == CloseResultCh \/ CloseWorkersFinished

Writer == WriterRecv \/ WriterSetActor \/ WriterRangeEnd

Monitor == MonitorTick \/ MonitorLog \/ MonitorStop

Next ==
    \/ Validate
    \/ LoadTree
    \/ NewTree
    \/ Launch
    \/ Wait
    \/ Flush
    \/ ExternalCancel
    \/ ProducerVisit
    \/ ProducerSend
    \/ ProducerCtxDone
    \/ ProducerCount
    \/ ProducerDone
    \/ ProducerForEachError
    \/ \E w \in Workers : JobHandoff(w)
    \/ \E w \in Workers : WorkerRecv(w)
    \/ \E w \in Workers : WorkerRangeEnd(w)
    \/ \E w \in Workers : WorkerMigrate(w)
    \/ \E w \in Workers : WorkerPanic(w)
    \/ \E w \in Workers : WorkerSend(w)
    \/ \E w \in Workers : ResultHandoff(w)
    \/ \E w \in Workers : WorkerCtxDone(w)
    \/ \E w \in Workers : WorkerCount(w)
    \/ CloseResultCh
    \/ CloseWorkersFinished
    \/ WriterRecv
    \/ WriterSetActor
    \/ WriterRangeEnd
    \/ MonitorTick
    \/ MonitorLog
    \/ MonitorStop

Spec == Init /\ [][Next]_vars

\* The Go scheduler runs every goroutine that can run: each goroutine that stays
\* able to take a step takes one, the monitor after its snapshot included.  A
\* select picks among its ready cases at random, so the monitor, whose select finds
\* a closed workersFinished or ctx.Done() ready each time it comes back to it, does
\* not pick its timer for ever.  Nothing makes the caller cancel its context.
Fairness ==
    /\ WF_vars(Main)
    /\ WF_vars(Producer)
    /\ \A w \in 1..MaxWorkersBound : WF_vars(w \in Workers /\ Worker(w))
    /\ WF_vars(Coordinator)
    /\ WF_vars(Writer)
    /\ WF_vars(MonitorLog)
    /\ SF_vars(MonitorStop)

FairSpec == Spec /\ Fairness

\* ---------------------------------------------------------------- properties
Returned == mainPc = "returned"
Succeeded == Returned /\ retErr = NoErr
Launched == hist.makeChans > 0

\* The addresses of the input tree whose code is not deferred.
NonDeferred == {a \in Addrs : actorsIn[a].Code \notin deferredCodeIDs}

\* The input tree holds an actor whose code is neither deferred nor mapped.
Unmapped == {a \in NonDeferred : actorsIn[a].Code \notin DOMAIN migrations}

\* The result MigrateState gives for the actor at a when it succeeds.
MigratedState(a) ==
    (CHOOSE o \in MigrateState(MigrationFor(actorsIn[a].Code),
                               StateMigrationInput(a, actorsIn[a])) : o.err = NoErr).result

\* The output tree a single goroutine builds that migrates the actors one after
\* the other in ForEach order, every MigrateState succeeding.
RECURSIVE SequentialOut(_)
SequentialOut(n) ==
    IF n = 0 THEN <<>>
    ELSE LET prev == SequentialOut(n - 1)
         IN  IF actorsIn[n].Code \in deferredCodeIDs THEN prev
             ELSE LET o == [result |-> MigratedState(n), err |-> NoErr]
                      r == migrateOneActor(NextInput(n), o).result
                  IN  SetActor(prev, r.Address, r.Actor)

\* Every result a worker made that exists somewhere: in a worker's hand, in the
\* result queue, in the writer's hand, or in the output tree.
ResultsInFlight ==
    {wResult[w] : w \in {v \in Workers : wPc[v] \in {"select", "count"}}}
        \cup {resultCh[i] : i \in 1..Len(resultCh)}
        \cup (IF writerPc = "set" THEN {writerResult} ELSE {})
AllResults ==
    ResultsInFlight \cup {[Address |-> a, Actor |-> actorsOut[a]] : a \in DOMAIN actorsOut}

\* A goroutine of the errgroup, or main, can take a step.
PipelineStep == Main \/ Producer \/ (\E w \in Workers : Worker(w)) \/ Coordinator \/ Writer

\* C1: when MigrateStateTree returns successfully, the addresses of the output tree
\* are exactly the addresses of the input tree whose code is not deferred.
C1_OutputAddresses ==
    Succeeded => /\ retRoot.def
                 /\ DOMAIN retRoot.tree = NonDeferred
                 /\ DOMAIN actorsOut = NonDeferred

C1_Witness ==
    /\ Succeeded
    /\ cfg.MaxWorkers >= 2
    /\ Cardinality(NonDeferred) >= 2
    /\ \E w \in Workers : hist.jobRecv[1] > 0 /\ wInput[w].Address = 2

\* C2: once a MigrateState call has returned an error, Flush is never called, and
\* MigrateStateTree returns a non-nil error and cid.Undef.
C2_MigrationErrorFails ==
    (\E a \in Addrs : hist.migrateErr[a] > 0)
        => /\ hist.flush = 0
           /\ mainPc # "flush"
           /\ Returned => (retErr # NoErr /\ retRoot = Undef)

C2_Witness ==
    /\ Returned
    /\ cfg.MaxWorkers >= 2
    /\ \E a \in Addrs : hist.migrateErr[a] > 0
    /\ actorsOut # <<>>

\* C3: with cfg.MaxWorkers >= 1, no reachable state is one in which
\* MigrateStateTree has not returned and neither it nor any goroutine of the
\* errgroup can take a step.
C3_NoDeadlock ==
    cfg.MaxWorkers >= 1 => (Returned \/ ENABLED PipelineStep)

\* C3, aside: the only states of that kind are those after a panic.
C3_NoDeadlockButPanic ==
    cfg.MaxWorkers >= 1 => (Returned \/ panicked \/ ENABLED PipelineStep)

\* C3, aside, under FairSpec: every run ends with MigrateStateTree returned, or
\* with a panic.
C3_TerminatesButPanic == <>(Returned \/ panicked)

\* C4: unless the caller cancelled the context, when some task returned an error
\* MigrateStateTree returns the error of the first task that did, which is a
\* migration, enumeration or write error and never the cancellation error.
C4_FirstErrorWins ==
    (Returned /\ ~extCancel /\ failLog # <<>>)
        => /\ retErr = failLog[1]
           /\ retErr # Canceled
           /\ retErr.kind \in {"state migration failed", "ForEach", "SetActor"}

C4_Witness ==
    /\ Returned
    /\ ~extCancel
    /\ Len(failLog) >= 2
    /\ \E i \in 2..Len(failLog) : failLog[i] = Canceled

\* C5: at successful return the content of the output tree is the content a single
\* goroutine migrating the actors one after the other builds, whatever
\* cfg.MaxWorkers, the queue capacities and the interleaving.
C5_Deterministic ==
    Succeeded => /\ actorsOut = SequentialOut(Cardinality(Addrs))
                 /\ retRoot = RootOf(SequentialOut(Cardinality(Addrs)))

C5_Witness ==
    /\ Succeeded
    /\ cfg.MaxWorkers >= 2
    /\ cfg.JobQueueSize = 0
    /\ cfg.ResultQueueSize > 0
    /\ Cardinality(DOMAIN actorsOut) >= 2
    /\ \E a \in Addrs : actorsOut[a].Head # actorsIn[a].Head

\* C6: when the input tree holds an actor whose code is neither deferred nor mapped,
\* no job is received by a worker, MigrateState is never called, and
\* MigrateStateTree returns an error.
C6_UnmappedCodeReturnsError ==
    Unmapped # {}
        => /\ \A a \in Addrs : hist.jobRecv[a] = 0 /\ hist.migrate[a] = 0
           /\ ~panicked
           /\ Returned => retErr # NoErr

\* C7: every actor of the output tree has the address, balance and call sequence
\* number of the input actor at its address, and the code and head that
\* MigrateState returned for it.
C7_CopyInvariant ==
    \A a \in DOMAIN actorsOut :
        /\ a \in Addrs
        /\ actorsOut[a].Balance = actorsIn[a].Balance
        /\ actorsOut[a].CallSeqNum = actorsIn[a].CallSeqNum
        /\ actorsOut[a].Code = MigratedState(a).NewCodeCID
        /\ actorsOut[a].Head = MigratedState(a).NewHead

C7_Witness ==
    /\ Cardinality(DOMAIN actorsOut) >= 2
    /\ \E a \in DOMAIN actorsOut : actorsOut[a].Head # actorsIn[a].Head
    /\ \E a \in DOMAIN actorsOut : actorsOut[a].Balance # actorsOut[a].CallSeqNum

\* C8: with cfg.MaxWorkers = 0, MigrateStateTree returns the configuration error
\* and cid.Undef, and nothing else ever happens: no tree is loaded or created, no
\* channel is made, no goroutine starts, nothing is sent, migrated, set or flushed.
C8_ZeroWorkers ==
    cfg.MaxWorkers = 0
        => /\ mainPc \in {"start", "returned"}
           /\ Returned => (retErr = Err("invalid migration config", 0) /\ retRoot = Undef)
           /\ hist.loadTree = 0 /\ hist.newTree = 0 /\ hist.makeChans = 0 /\ hist.flush = 0
           /\ prodPc = "idle" /\ coordPc = "idle" /\ writerPc = "idle" /\ monPc = "idle"
           /\ \A a \in Addrs : hist.jobSent[a] = 0 /\ hist.migrate[a] = 0
                               /\ hist.setActor[a] = 0
           /\ actorsOut = <<>>

C8_Witness ==
    /\ cfg.MaxWorkers = 0
    /\ Returned
    /\ Addrs # {}

\* C9: every result made for an actor whose migration is a nilMigrator has the
\* input actor's head and the nilMigrator's OutCodeCID, and MigrateState never
\* failed for such an actor.
C9_NilMigrator ==
    \A a \in Addrs :
        MigrationFor(actorsIn[a].Code).kind = "nilMigrator"
            => /\ hist.migrateErr[a] = 0
               /\ \A r \in AllResults :
                     r.Address = a
                         => /\ r.Actor.Head = actorsIn[a].Head
                            /\ r.Actor.Code = MigrationFor(actorsIn[a].Code).OutCodeCID

C9_Witness ==
    \E a \in DOMAIN actorsOut :
        /\ MigrationFor(actorsIn[a].Code).kind = "nilMigrator"
        /\ actorsOut[a].Code = "v3/account"
        /\ hist.migrate[a] = 1

\* C10: the result channel is closed at most once and only by the goroutine that
\* waits for workerWg, only when every worker has returned; no worker sends on it
\* once it is closed; and it is closed in every run that started the goroutines:
\* when nothing can take a step any more, it has been closed.
C10_ResultChClosedOnce ==
    /\ Len(hist.resultCloses) <= 1
    /\ \A i \in 1..Len(hist.resultCloses) : hist.resultCloses[i] = "coordinator"
    /\ resultClosed => \A w \in Workers : wPc[w] = "done"
    /\ ~hist.sentAfterClose
    /\ (Launched /\ ~ENABLED PipelineStep) => resultClosed

\* C10, aside: apart from the states after a panic, every part of C10 holds.
C10_ResultChClosedOnceButPanic ==
    /\ Len(hist.resultCloses) <= 1
    /\ \A i \in 1..Len(hist.resultCloses) : hist.resultCloses[i] = "coordinator"
    /\ resultClosed => \A w \in Workers : wPc[w] = "done"
    /\ ~hist.sentAfterClose
    /\ (Launched /\ ~panicked /\ ~ENABLED PipelineStep) => resultClosed

\* C11: the job channel is closed at most once and only by the producer; it is
\* closed exactly when the producer has returned, whichever way it returned
\* (ForEach completed, ForEach failed, or ctx.Done() taken in the visitor's select);
\* and once it is closed no job is sent and the channel gains no element.
C11_InputChClosedOnce ==
    /\ [](/\ Len(hist.inputCloses) <= 1
          /\ \A i \in 1..Len(hist.inputCloses) : hist.inputCloses[i] = "producer"
          /\ inputClosed <=> prodPc = "done"
          /\ prodPc = "done" => hist.inputCloses = <<"producer">>)
    /\ [][inputClosed => /\ hist'.jobSent = hist.jobSent
                         /\ Len(inputCh') <= Len(inputCh)
                         /\ inputClosed']_vars

\* The producer returned the cancellation error from its select (no worker has
\* returned, so the cancellation error in the log is the producer's), with the
\* enumeration unfinished and a job still waiting in the closed channel.
C11_Witness ==
    /\ inputClosed
    /\ prodPc = "done"
    /\ prodIdx \in Addrs
    /\ \E i \in 1..Len(failLog) : failLog[i] = Canceled
    /\ \A w \in Workers : wPc[w] # "done"
    /\ inputCh # <<>>

\* C12: Flush is called at most once, and when main is about to call it or has
\* called it, the producer, every worker, the goroutine closing the result channel
\* and the result writer have all returned, none of them with an error; so both
\* channels are closed and empty, no result is in a worker's or the writer's hand,
\* and every result sent on the result channel has been set in the output tree.
C12_FlushAfterAll ==
    /\ hist.flush <= 1
    /\ (mainPc = "flush" \/ hist.flush > 0)
          => /\ prodPc = "done"
             /\ \A w \in Workers : wPc[w] = "done"
             /\ coordPc = "done"
             /\ writerPc = "done"
             /\ failLog = <<>>
             /\ grpErr = NoErr
             /\ inputClosed /\ inputCh = <<>>
             /\ resultClosed /\ resultCh = <<>>
             /\ ResultsInFlight = {}
             /\ \A a \in Addrs : /\ hist.setActor[a] = hist.resSent[a]
                                  /\ hist.resRecv[a] = hist.resSent[a]
                                  /\ hist.resSent[a] > 0 => a \in DOMAIN actorsOut

\* Flush has been called in a run of two workers that sent two results through a
\* buffered result channel.
C12_Witness ==
    /\ hist.flush = 1
    /\ cfg.MaxWorkers >= 2
    /\ cfg.ResultQueueSize > 0
    /\ Cardinality({a \in Addrs : hist.resSent[a] > 0}) >= 2

\* In no run is anything duplicated: each address has at most one job sent, a job
\* is received at most once, at most one worker holds the job of an address, each
\* address has at most one result sent, a result is received at most once, and each
\* address is set in the output tree at most once.
AtMostOnceFlow ==
    \A a \in Addrs :
        /\ hist.jobSent[a] <= 1
        /\ hist.jobRecv[a] <= hist.jobSent[a]
        /\ Cardinality({w \in Workers :
                          wPc[w] \in {"migrate", "select", "count"}
                              /\ wInput[w].Address = a}) <= 1
        /\ hist.migrate[a] <= hist.jobRecv[a]
        /\ hist.resSent[a] <= hist.migrate[a]
        /\ hist.resRecv[a] <= hist.resSent[a]
        /\ hist.setActor[a] <= hist.resRecv[a]

\* In a successful run everything of a non-deferred address happened exactly once,
\* and nothing happened for a deferred one.
ExactlyOnceOnSuccess ==
    Succeeded =>
        \A a \in Addrs :
            LET n == IF a \in NonDeferred THEN 1 ELSE 0
            IN  /\ hist.jobSent[a] = n
                /\ hist.jobRecv[a] = n
                /\ hist.resSent[a] = n
                /\ hist.resRecv[a] = n
                /\ hist.setActor[a] = n

\* C13: a job is received by at most one worker, a result is received by the writer
\* at most once, an address is set in the output tree at most once; and in a
\* successful run every job is received exactly once, every result is received
\* exactly once and every non-deferred address is set exactly once.
C13_ExactlyOnceFlow == AtMostOnceFlow /\ ExactlyOnceOnSuccess

\* A successful run in which each of two workers received one of two jobs.
C13_Witness ==
    /\ Succeeded
    /\ cfg.MaxWorkers >= 2
    /\ Cardinality(NonDeferred) >= 2
    /\ wInput[1].Address # 0
    /\ wInput[2].Address # 0
    /\ wInput[1].Address # wInput[2].Address

\* C13 as stated: in every run, successful or not, every result a worker sent has
\* been received by the writer when MigrateStateTree returns.
C13_EveryResultReceived ==
    /\ AtMostOnceFlow
    /\ ExactlyOnceOnSuccess
    /\ Returned => \A a \in Addrs : hist.resRecv[a] = hist.resSent[a]

\* Worker w is parked in its range over inputCh: no job is there to receive (none
\* queued, and on an unbuffered channel no producer at its send) and the channel is
\* open.
WorkerBlockedAtRecv(w) ==
    /\ wPc[w] = "recv"
    /\ inputCh = <<>>
    /\ ~inputClosed
    /\ ~(cfg.JobQueueSize = 0 /\ prodPc = "select")

\* The result writer is parked in its range over resultCh.
WriterBlockedAtRecv ==
    /\ writerPc = "recv"
    /\ resultCh = <<>>
    /\ ~resultClosed
    /\ ~(cfg.ResultQueueSize = 0 /\ \E w \in Workers : wPc[w] = "select")

\* The task returns in one step that leaves both channels and every hand as they
\* are: it has observed the cancellation, not completed its channel operation.
ProducerExitsOnCancel ==
    Producer /\ prodPc' = "done" /\ inputCh' = inputCh /\ hist'.jobSent = hist.jobSent
WorkerExitsOnCancel(w) ==
    /\ Worker(w)
    /\ wPc'[w] = "done"
    /\ inputCh' = inputCh /\ resultCh' = resultCh
    /\ hist'.jobRecv = hist.jobRecv /\ hist'.resSent = hist.resSent
    /\ hist'.migrate = hist.migrate
WriterExitsOnCancel ==
    Writer /\ writerPc' = "done" /\ resultCh' = resultCh /\ hist'.resRecv = hist.resRecv

\* C14: with the context cancelled, a task at any of the four channel operations
\* (producer at its send, worker at its receive, worker at its send, writer at its
\* receive) can return without completing the operation, the channel still open.
C14_EveryBlockingPointChecksCtx ==
    (CtxDone /\ Alive) =>
        /\ (prodPc = "select" /\ ~inputClosed) => ENABLED ProducerExitsOnCancel
        /\ \A w \in Workers :
              (wPc[w] = "select" /\ ~resultClosed) => ENABLED WorkerExitsOnCancel(w)
        /\ \A w \in Workers : WorkerBlockedAtRecv(w) => ENABLED WorkerExitsOnCancel(w)
        /\ WriterBlockedAtRecv => ENABLED WriterExitsOnCancel

\* C14, aside: the two sends are in a select with ctx.Done() and do check it.
C14_SendsCheckCtx ==
    (CtxDone /\ Alive) =>
        /\ (prodPc = "select" /\ ~inputClosed) => ENABLED ProducerExitsOnCancel
        /\ \A w \in Workers :
              (wPc[w] = "select" /\ ~resultClosed) => ENABLED WorkerExitsOnCancel(w)

\* C14, aside: a worker parked at its receive, and the writer parked at its, can
\* take no step at all, cancelled or not.
C14_ReceivesIgnoreCtx ==
    Alive =>
        /\ \A w \in Workers : WorkerBlockedAtRecv(w) => ~ENABLED Worker(w)
        /\ WriterBlockedAtRecv => ~ENABLED Writer

\* The producer is at its select and the send cannot proceed: the job channel is
\* full, or unbuffered with no worker at its receive.
ProducerBlocked ==
    /\ prodPc = "select"
    /\ Len(inputCh) >= cfg.JobQueueSize
    /\ ~(cfg.JobQueueSize = 0 /\ \E w \in Workers : wPc[w] = "recv")

\* C15: the step the producer takes from its select, with the send unable to
\* proceed and the context cancelled, is its return with the cancellation error: the
\* job is not sent, jobCount is not incremented, the job channel is closed; and
\* once the producer has returned no job is sent and jobCount does not change.
C15_ProducerCancelWhilePublishing ==
    /\ [][(ProducerBlocked /\ CtxDone /\ prodPc' # prodPc)
            => /\ prodPc' = "done"
               /\ failLog' = Append(failLog, Canceled)
               /\ jobCount' = jobCount
               /\ hist'.jobSent = hist.jobSent
               /\ inputCh' = inputCh
               /\ inputClosed']_vars
    /\ [][prodPc = "done"
            => /\ prodPc' = "done"
               /\ prodIdx' = prodIdx
               /\ jobCount' = jobCount
               /\ hist'.jobSent = hist.jobSent]_vars

\* The producer returned the cancellation error while the job channel was full of
\* an earlier job: the job of the actor it was at was not sent nor counted, and a
\* later actor was never visited.
C15_Witness ==
    /\ prodPc = "done"
    /\ cfg.JobQueueSize >= 1
    /\ Len(inputCh) = cfg.JobQueueSize
    /\ \E i \in 1..Len(failLog) : failLog[i] = Canceled
    /\ \A w \in Workers : wPc[w] # "done"
    /\ prodIdx \in Addrs
    /\ hist.jobSent[prodIdx] = 0
    /\ jobCount = prodIdx - 1
    /\ jobCount >= 1

\* The sum of a per-address count over the addresses 1..n.
RECURSIVE SumTo(_, _)
SumTo(f, n) == IF n = 0 THEN 0 ELSE f[n] + SumTo(f, n - 1)
Total(f) == SumTo(f, Cardinality(Addrs))

\* C16: in every reachable state the number of jobs sent on the job channel minus
\* jobCount is 0 or 1; it is 1 exactly while the producer is between its send and
\* its atomic.AddUint32, and 0 when the producer has returned.
C16_JobCountFollowsSend ==
    LET d == Total(hist.jobSent) - jobCount
    IN  /\ d \in {0, 1}
        /\ d = 1 <=> prodPc = "count"
        /\ prodPc = "done" => d = 0

\* The second job has been handed to a worker on an unbuffered channel and is not
\* counted yet.
C16_Witness ==
    /\ prodPc = "count"
    /\ cfg.JobQueueSize = 0
    /\ jobCount = 1
    /\ Total(hist.jobSent) = 2
    /\ \E w \in Workers : wPc[w] = "migrate" /\ wInput[w].Address = prodIdx

\* C17: in every reachable state doneCount is the number of results sent on the
\* result channel less one for each worker between its send and its
\* atomic.AddUint32, so it is never more than the results sent; no result is sent
\* for an actor whose MigrateState failed; and at successful return jobCount,
\* doneCount, the writer's resultCount and the number of non-deferred actors of the
\* input tree are equal.
C17_DoneCountFollowsSend ==
    /\ doneCount <= Total(hist.resSent)
    /\ doneCount = Total(hist.resSent) - Cardinality({w \in Workers : wPc[w] = "count"})
    /\ \A a \in Addrs : hist.migrateErr[a] > 0 => hist.resSent[a] = 0
    /\ resultCount = Total(hist.setActor)
    /\ Succeeded => /\ jobCount = Cardinality(NonDeferred)
                    /\ doneCount = Cardinality(NonDeferred)
                    /\ resultCount = Cardinality(NonDeferred)

\* A run of two workers returned after one job's MigrateState failed and the other
\* job's result was sent: one job is counted done of the two created.
C17_Witness ==
    /\ Returned
    /\ cfg.MaxWorkers >= 2
    /\ jobCount = 2
    /\ doneCount = 1
    /\ \E a \in Addrs : hist.migrateErr[a] > 0
    /\ Total(hist.resSent) = 1

\* C17, second case: a successful run of two workers and two jobs.
C17_WitnessSuccess ==
    /\ Succeeded
    /\ cfg.MaxWorkers >= 2
    /\ doneCount = 2
    /\ resultCount = 2

\* What the monitor must leave alone: the counters, the channels, the output tree
\* and what MigrateStateTree returns.
MonitorChangesNothing ==
    [][Monitor => UNCHANGED <<countVars, jobChVars, resChVars, actorsOut, mainVars>>]_vars

\* With cfg.ProgressLogPeriod = 0 the monitor is never started.
MonitorNotStarted == cfg.ProgressLogPeriod = 0 => monPc = "idle"

\* C18: with cfg.ProgressLogPeriod = 0 the monitor is never started; a monitor that
\* was started returns in every run; it returns only when workersFinished is closed
\* or the context is done; and no step of the monitor changes a counter, a channel,
\* the output tree or what MigrateStateTree returns.
C18_Monitor ==
    /\ []MonitorNotStarted
    /\ [](monPc \in {"select", "snapshot"} => <>(monPc = "done"))
    /\ [][(monPc # "done" /\ monPc' = "done") => (workersFinished \/ CtxDone)]_vars
    /\ MonitorChangesNothing

\* C18, aside: a monitor that was started returns in every run that does not end in
\* a panic, and the rest of C18 holds in every run.
C18_MonitorButPanic ==
    /\ []MonitorNotStarted
    /\ [](monPc \in {"select", "snapshot"} => <>(monPc = "done" \/ panicked))
    /\ [][(monPc # "done" /\ monPc' = "done") => (workersFinished \/ CtxDone)]_vars
    /\ MonitorChangesNothing

\* The pending value the monitor is about to log has not wrapped around: it is the
\* small difference of two counts of actors, not a value near 2^32.
PendingNotWrapped == monPc = "snapshot" => PendingNow.hi = 0

\* C19: in every reachable state doneCount <= jobCount, so the pendingNow the
\* monitor computes as jobsNow - doneNow on uint32 never wraps around.
C19_DoneAtMostCreated ==
    /\ doneCount <= jobCount
    /\ PendingNotWrapped

\* C19, aside: the wrapped value itself is reached, whatever is said of the counters.
C19_PendingNeverWraps == PendingNotWrapped

\* C19, aside: doneCount is never more than one ahead of jobCount, the one job the
\* producer has sent and not counted yet.
C19_DoneAtMostOneAhead == doneCount <= jobCount + 1

\* Where a record can be between the producer's send and the writer's SetActor: in
\* the job channel, in the hand of a worker that has not sent its result yet, in
\* the result channel, or in the hand of the writer (which keeps it when SetActor
\* fails).
InJobQueue == {inputCh[i].Address : i \in 1..Len(inputCh)}
HeldByWorker == {wInput[w].Address : w \in {v \in Workers : wPc[v] \in {"migrate", "select"}}}
InResultQueue == {resultCh[i].Address : i \in 1..Len(resultCh)}
HeldByWriter ==
    IF writerPc \in {"set", "done"} /\ writerResult # NoResult
          /\ hist.setActor[writerResult.Address] = 0
    THEN {writerResult.Address} ELSE {}

\* The worker that received the job of a returned without sending its result: its
\* migrateOneActor failed, or its select took ctx.Done().
DroppedByWorker(a) ==
    /\ hist.resSent[a] = 0
    /\ \E w \in Workers : wPc[w] = "done" /\ wInput[w].Address = a

\* The records the producer has sent that the writer has not set in the output
\* tree and that no worker dropped.
Pending ==
    {a \in Addrs : hist.jobSent[a] > 0 /\ hist.setActor[a] = 0 /\ ~DroppedByWorker(a)}

C20_WitnessBuffered ==
    /\ cfg.JobQueueSize = 1
    /\ cfg.ResultQueueSize = 1
    /\ Len(inputCh) = 1
    /\ Len(resultCh) = 1
    /\ Cardinality(Pending) = 2

====
